---- MODULE Spec2Model ----
(***************************************************************************)
(* Model of the channel broadcast of src/bot.py: the sent_deals table of   *)
(* class Database and the coroutine NotificationSystem.send_to_channel,    *)
(* cut into one action per stretch of code between two awaits.             *)
(*                                                                         *)
(* Strings the code transforms (titles, prices, hashes) are sequences of   *)
(* one-character strings; strings it only passes on (urls) are TLA+        *)
(* strings.                                                                *)
(***************************************************************************)
EXTENDS Integers, Sequences, FiniteSets, TLC

VARIABLES
    dbState,   \* "absent": db is None; "nopool": db.pool is None; "ok": connected
    store,     \* the rows of table sent_deals, in insertion order
    pc,        \* pc[c]: where invocation c of send_to_channel is suspended
    batch,     \* batch[c]: the argument deals of invocation c
    idx,       \* idx[c]: the loop variable i of invocation c (1-based)
    owner,     \* owner[c]: the orchestrator (NotificationSystem) running c
    trace,     \* trace[c]: what invocation c has done so far, in order
    seen,      \* seen[c]: the hashes stored in sent_deals when c was invoked
    started,   \* started[o]: the invocations orchestrator o has started
    now,       \* the database clock (CURRENT_TIMESTAMP), in days
    users,     \* the rows of table users, by user_id (NoUser: no row)
    lastCall,  \* the last call of a users-table method: its arguments and
               \* what it returned
    scrape,    \* the last call of scrape_amazon_deals made by a handler: the
               \* response it got, its limit and what it returned
    trend,     \* the running or last call of get_trending_deals
    affiliate_link,  \* the last call of create_affiliate_link: its argument
               \* and what it returned
    hashed     \* the last two calls of generate_deal_hash: their arguments,
               \* the strings they hashed and what they returned

\* the variables of the channel broadcast
deliveryVars == <<dbState, store, pc, batch, idx, owner, trace, seen, started>>
\* the variables of the users table
userVars == <<users, lastCall>>
collectVars == <<scrape, trend>>
\* the variables of the calls of the scraper's two plain functions
pureVars == <<affiliate_link, hashed>>

vars == <<dbState, store, pc, batch, idx, owner, trace, seen, started,
          now, users, lastCall, scrape, trend, affiliate_link,
          hashed>>

----------------------------------------------------------------------------
(* Bounds of the model *)

\* longest batch handed to send_to_channel when cycles run one after another
MaxBatch == 3
\* longest batch when invocations run concurrently
MaxConcBatch == 1
\* cycles started in one behaviour, one after another
MaxCycles == 2
\* failing outbound calls (sends, store writes) injected per invocation
MaxFaults == 1
\* the last day the clock of the users table reaches
MaxNow == 45
\* result fragments of a freely composed response page
MaxFrags == 3
\* the same for the pages the search terms of get_trending_deals get
MaxTrendFrags == 1
\* pieces an argument of create_affiliate_link is put together from
MaxParts == 4
\* characters of a title or a price handed to generate_deal_hash directly
MaxText == 2

\* invocations of send_to_channel that can be in flight at once
Slots == {1, 2}
\* orchestrator instances (processes holding a NotificationSystem)
Orchestrators == {1, 2}

----------------------------------------------------------------------------
(* Program constants and pure functions *)

\* the user ids of the model
UserIds == {1, 2}

\* the value standing for "no row with this user_id"
NoUser == [exists |-> FALSE]

\* an optional argument: Python's None, or a value v given as Some(v)
None == <<>>
Some(v) == <<v>>

\* column defaults of table users (lines 55-57)
DefaultNotifications == TRUE
DefaultCategories == {}
DefaultMaxPrice == 500

\* INTERVAL '30 days' of line 141
RetentionDays == 30

CHANNEL_ID == "121413748"

\* deals[:5]
ChannelCap == 5

Min(a, b) == IF a < b THEN a ELSE b

\* str.lower() on one character (the texts of the model hold no letters
\* but the 26 of ASCII)
LowerChar(ch) ==
    CASE ch = "A" -> "a" [] ch = "B" -> "b" [] ch = "C" -> "c" [] ch = "D" -> "d"
      [] ch = "E" -> "e" [] ch = "F" -> "f" [] ch = "G" -> "g" [] ch = "H" -> "h"
      [] ch = "I" -> "i" [] ch = "J" -> "j" [] ch = "K" -> "k" [] ch = "L" -> "l"
      [] ch = "M" -> "m" [] ch = "N" -> "n" [] ch = "O" -> "o" [] ch = "P" -> "p"
      [] ch = "Q" -> "q" [] ch = "R" -> "r" [] ch = "S" -> "s" [] ch = "T" -> "t"
      [] ch = "U" -> "u" [] ch = "V" -> "v" [] ch = "W" -> "w" [] ch = "X" -> "x"
      [] ch = "Y" -> "y" [] ch = "Z" -> "z"
      [] OTHER -> ch

Lower(s) == [k \in 1..Len(s) |-> LowerChar(s[k])]

\* generate_deal_hash: md5 of the lower-cased "title_price"; the digest is
\* taken as collision-free, so the hashed content stands for the hash
generate_deal_hash(title, price) == Lower(title \o <<"_">> \o price)

\* a listing as get_trending_deals hands it on: the scraped fields plus 'hash'
Deal(title, price, url, image) ==
    [title |-> title, price |-> price, url |-> url, image |-> image,
     hash |-> generate_deal_hash(title, price)]

\* The listings of the model ("EUR" stands for the one character of the euro
\* sign that line 354 puts before the price): two whose titles differ by case only (one with
\* an image, one without) and a third with another title and price.
DealA == Deal(<<"T", "v">>, <<"EUR", "9">>, "/dp/A", "http://img/a")
DealB == Deal(<<"T", "V">>, <<"EUR", "9">>, "/dp/B", "")
DealC == Deal(<<"E">>, <<"EUR", "5">>, "/dp/C", "http://img/c")

Deals == {DealA, DealB, DealC}

SeqsUpTo(S, n) == UNION { [1..k -> S] : k \in 0..n }

\* batches one longer than the per-cycle cap of line 424: two listings
\* repeated in turn
LongBatches ==
    { [k \in 1..(ChannelCap + 1) |-> pair[((k - 1) % 2) + 1]] :
        pair \in [1..2 -> Deals] }

Batches == SeqsUpTo(Deals, MaxBatch) \cup LongBatches
ConcBatches == SeqsUpTo(Deals, MaxConcBatch)

\* deal.get('image') and deal['image'].startswith('http')
HasHttpImage(deal) == deal.image \in {"http://img/a", "http://img/c"}

----------------------------------------------------------------------------
(* AmazonScraperAdvanced.scrape_amazon_deals *)

\* line 360: if price_value > 500: continue
PriceCeiling == 500
\* line 376: title[:100] + "..." if len(title) > 100 else title
TitleMax == 100
\* line 342: the title of a fragment without a title element
PlaceholderTitle ==
    <<"P", "r", "o", "d", "o", "t", "t", "o", " ", "A", "m", "a", "z", "o", "n">>

Digits == {"0", "1", "2", "3", "4", "5", "6", "7", "8", "9"}
DigitValue(ch) ==
    CASE ch = "0" -> 0 [] ch = "1" -> 1 [] ch = "2" -> 2 [] ch = "3" -> 3
      [] ch = "4" -> 4 [] ch = "5" -> 5 [] ch = "6" -> 6 [] ch = "7" -> 7
      [] ch = "8" -> 8 [] ch = "9" -> 9

\* str.strip() (the texts of the model hold no white space but " ")
RECURSIVE LStrip(_)
LStrip(text) ==
    IF text /= <<>> /\ Head(text) = " " THEN LStrip(Tail(text)) ELSE text
RECURSIVE RStripLen(_, _)
RStripLen(text, n) ==
    IF n > 0 /\ text[n] = " " THEN RStripLen(text, n - 1) ELSE n
Strip(text) == LET t == LStrip(text) IN SubSeq(t, 1, RStripLen(t, Len(t)))

\* str.replace(',', '')
RemoveCommas(text) == SelectSeq(text, LAMBDA ch : ch /= ",")

\* int(text) returns a value (the texts of the model hold no sign, no
\* underscore and no inner white space); otherwise it raises ValueError
IsInt(text) == text /= <<>> /\ \A k \in DOMAIN text : text[k] \in Digits
RECURSIVE IntOf(_)
IntOf(text) ==
    IF text = <<>> THEN 0
    ELSE 10 * IntOf(SubSeq(text, 1, Len(text) - 1)) + DigitValue(text[Len(text)])

\* A result fragment of the response page, as the parser sees it: the text of
\* its title element, the href of the link under its h2, the text of its
\* a-price-whole element (each None when the element is missing) and the src
\* of its image ("" when missing).
Fragment(title, link, price, image) ==
    [title |-> title, link |-> link, price |-> price, image |-> image]

\* lines 346-349 and 353-358: what ends the work on a fragment early
NoLink(f) == f.link = None
NoPrice(f) == f.price = None
\* line 355: int(...) raises
PriceRaises(f) == ~IsInt(RemoveCommas(Strip(f.price[1])))

\* lines 337-388, the body of the loop for one fragment: the listing it
\* appends, as a sequence of one, or nothing. The url is the href without
\* the constant prefix of line 347; original_price, rating and source are
\* not carried.
ParseFragment(f) ==
    LET title == IF f.title = None THEN PlaceholderTitle ELSE Strip(f.title[1])
    IN  IF NoLink(f) \/ NoPrice(f) THEN <<>>
        ELSE IF PriceRaises(f) THEN <<>>
        ELSE LET text == Strip(f.price[1])
                 price_value == IntOf(RemoveCommas(text))
             IN  IF price_value > PriceCeiling THEN <<>>
                 ELSE << [title |-> IF Len(title) > TitleMax
                                    THEN SubSeq(title, 1, TitleMax) \o <<".", ".", ".">>
                                    ELSE title,
                          price |-> <<"EUR">> \o text,
                          price_value |-> price_value,
                          url |-> f.link[1],
                          image |-> f.image] >>

\* mutant: no try/except around the body of the loop, so a raising fragment
\* ends the loop in the outer except
RECURSIVE ParseProducts_NoInnerTry(_)
ParseProducts_NoInnerTry(products) ==
    IF products = <<>> THEN <<>>
    ELSE IF ~NoLink(Head(products)) /\ ~NoPrice(Head(products))
            /\ PriceRaises(Head(products))
         THEN <<>>
         ELSE ParseFragment(Head(products))
                \o ParseProducts_NoInnerTry(Tail(products))

\* lines 336-388: the loop over the fragments, in page order
RECURSIVE ParseProducts(_)
ParseProducts(products) ==
    IF products = <<>> THEN <<>>
    ELSE ParseFragment(Head(products)) \o ParseProducts(Tail(products))

\* products[:max_deals]
FirstProducts(products, max_deals) ==
    SubSeq(products, 1, Min(Len(products), max_deals))

\* What the marketplace answers: the request raises (network error,
\* time-out), or a response with a status and the result fragments of its
\* body.
Response(raises, status, products) ==
    [raises |-> raises, status |-> status, products |-> products]

\* mutant: the status of the response is not looked at
scrape_amazon_deals_IgnoresStatus(response, max_deals) ==
    IF response.raises
    THEN [raised |-> FALSE, parsed |-> 0, deals |-> <<>>]
    ELSE [raised |-> FALSE,
          parsed |-> Len(FirstProducts(response.products, max_deals)),
          deals |-> ParseProducts(FirstProducts(response.products, max_deals))]

\* lines 305-393. What the call gives its caller: whether it raised, how many
\* fragments it began to parse and the listings it returned.
scrape_amazon_deals(response, max_deals) ==
    IF response.raises
    THEN \* the outer except of lines 390-391, then return deals
         [raised |-> FALSE, parsed |-> 0, deals |-> <<>>]
    ELSE IF response.status /= 200
    THEN \* lines 328-329
         [raised |-> FALSE, parsed |-> 0, deals |-> <<>>]
    ELSE [raised |-> FALSE,
          parsed |-> Len(FirstProducts(response.products, max_deals)),
          deals |-> ParseProducts(FirstProducts(response.products, max_deals))]

----------------------------------------------------------------------------
(* AmazonScraperAdvanced.create_affiliate_link; a URL is a string *)

\* line 25: os.getenv('AMAZON_TAG', 'botaffari-21')
AMAZON_TAG == "botaffari-21"

\* the length of the product id, {10} in the patterns of lines 251 and 253
AsinLength == 10

\* the character class [A-Z0-9]
AsinChars ==
    {"A", "B", "C", "D", "E", "F", "G", "H", "I", "J", "K", "L", "M", "N",
     "O", "P", "Q", "R", "S", "T", "U", "V", "W", "X", "Y", "Z"} \cup Digits

CharAt(text, p) == SubSeq(text, p, p)

\* the pattern <lead>([A-Z0-9]{10}) matches text at position p
MatchesAt(text, lead, p) ==
    /\ p + Len(lead) + AsinLength - 1 <= Len(text)
    /\ SubSeq(text, p, p + Len(lead) - 1) = lead
    /\ \A k \in 0..(AsinLength - 1) :
          CharAt(text, p + Len(lead) + k) \in AsinChars

\* re.search(lead + '([A-Z0-9]{10})', text): group 1 of the leftmost match,
\* or None
Search(text, lead) ==
    LET at == { p \in 1..Len(text) : MatchesAt(text, lead, p) }
    IN  IF at = {} THEN None
        ELSE LET p == CHOOSE q \in at : \A r \in at : q <= r
             IN  Some(SubSeq(text, p + Len(lead), p + Len(lead) + AsinLength - 1))

\* '?' in amazon_url
HasQuestionMark(text) == \E p \in 1..Len(text) : CharAt(text, p) = "?"

\* mutant: the tag is always appended with '?'
create_affiliate_link_AlwaysQuestionMark(amazon_url) ==
    LET dp == Search(amazon_url, "/dp/")
        asin_match == IF dp /= None THEN dp
                      ELSE Search(amazon_url, "/gp/product/")
    IN  IF asin_match /= None
        THEN [raised |-> FALSE,
              url |-> "https://www.amazon.it/dp/" \o asin_match[1] \o "/?tag="
                        \o AMAZON_TAG \o "&linkCode=ogi&th=1&psc=1"]
        ELSE [raised |-> FALSE, url |-> amazon_url \o "?tag=" \o AMAZON_TAG]

\* lines 249-262. What the call gives its caller: whether it raised, and the
\* URL it returned.
create_affiliate_link(amazon_url) ==
    LET dp == Search(amazon_url, "/dp/")
        asin_match == IF dp /= None THEN dp
                      ELSE Search(amazon_url, "/gp/product/")
    IN  IF asin_match /= None
        THEN [raised |-> FALSE,
              url |-> "https://www.amazon.it/dp/" \o asin_match[1] \o "/?tag="
                        \o AMAZON_TAG \o "&linkCode=ogi&th=1&psc=1"]
        ELSE IF HasQuestionMark(amazon_url)
        THEN [raised |-> FALSE, url |-> amazon_url \o "&tag=" \o AMAZON_TAG]
        ELSE [raised |-> FALSE, url |-> amazon_url \o "?tag=" \o AMAZON_TAG]

----------------------------------------------------------------------------
(* AmazonScraperAdvanced.get_trending_deals *)

\* line 286: random.sample(trending_searches, 3)
SampleSize == 3
\* line 288: scrape_amazon_deals(search_term, max_deals=3)
TrendLimit == 3
\* line 298: deal['title'][:50]
KeyLength == 50

TitleKey(title) == SubSeq(title, 1, Min(Len(title), KeyLength))

\* line 300: deal['hash'] = self.generate_deal_hash(deal['title'], deal['price'])
WithHash(deal) ==
    [title |-> deal.title, price |-> deal.price,
     price_value |-> deal.price_value, url |-> deal.url, image |-> deal.image,
     hash |-> generate_deal_hash(deal.title, deal.price)]

KeysOf(deals) == { TitleKey(deals[k].title) : k \in DOMAIN deals }

\* mutant: unique_deals[deal_key] = deal for every listing, so the last
\* listing with a key takes the place of the first
RECURSIVE UniqueDeals_LastWins(_, _)
UniqueDeals_LastWins(all_deals, unique_deals) ==
    IF all_deals = <<>> THEN unique_deals
    ELSE LET deal == Head(all_deals)
             deal_key == TitleKey(deal.title)
         IN  IF deal_key \in KeysOf(unique_deals)
             THEN UniqueDeals_LastWins(Tail(all_deals),
                    [k \in DOMAIN unique_deals |->
                        IF TitleKey(unique_deals[k].title) = deal_key
                        THEN WithHash(deal) ELSE unique_deals[k]])
             ELSE UniqueDeals_LastWins(Tail(all_deals),
                    Append(unique_deals, WithHash(deal)))

\* lines 296-301: unique_deals, a dict, as the sequence of its values in
\* insertion order
RECURSIVE UniqueDeals(_, _)
UniqueDeals(all_deals, unique_deals) ==
    IF all_deals = <<>> THEN unique_deals
    ELSE LET deal == Head(all_deals)
             deal_key == TitleKey(deal.title)
         IN  IF deal_key \in KeysOf(unique_deals)
             THEN UniqueDeals(Tail(all_deals), unique_deals)
             ELSE UniqueDeals(Tail(all_deals),
                              Append(unique_deals, WithHash(deal)))

\* line 303: list(unique_deals.values())[:max_deals]
TrendingResult(all_deals, max_deals) ==
    LET values == UniqueDeals(all_deals, <<>>)
    IN  SubSeq(values, 1, Min(Len(values), max_deals))

\* lines 270-282: the call
TrendCall(max_deals) ==
    /\ trend.pc = "idle"
    /\ trend' = [pc |-> "searching", max_deals |-> max_deals, terms |-> 0,
                 failed |-> 0, all_deals |-> <<>>]

\* the fetch of a search term failed: the request raised or the status is
\* not 200
FetchFailed(response) == response.raises \/ response.status /= 200

\* lines 286-293: one search term of the sample; an exception of the call is
\* logged and the loop goes on. failed counts the searches whose fetch
\* failed.
TrendSearch(response) ==
    /\ trend.pc = "searching"
    /\ trend.terms < SampleSize
    /\ LET deals == scrape_amazon_deals(response, TrendLimit)
       IN  trend' = [trend EXCEPT
                        !.terms = @ + 1,
                        !.failed = IF FetchFailed(response) THEN @ + 1 ELSE @,
                        !.all_deals = IF deals.raised THEN @
                                      ELSE @ \o deals.deals]

\* lines 295-303
TrendReturn ==
    /\ trend.pc = "searching"
    /\ trend.terms = SampleSize
    /\ trend' = [pc |-> "returned", max_deals |-> trend.max_deals,
                 failed |-> trend.failed, all_deals |-> trend.all_deals,
                 deals |-> TrendingResult(trend.all_deals, trend.max_deals)]

----------------------------------------------------------------------------
(* class Database: table sent_deals *)

\* the column default CURRENT_TIMESTAMP (line 98)
CURRENT_TIMESTAMP == now

RowsWith(rows, deal_hash) == { k \in DOMAIN rows : rows[k].deal_hash = deal_hash }

\* SELECT COUNT(*) FROM sent_deals WHERE deal_hash = $1; return result > 0
is_deal_sent(rows, deal_hash) == Cardinality(RowsWith(rows, deal_hash)) > 0

\* mutant: a plain INSERT into a table without the UNIQUE constraint
mark_deal_sent_NoConflict(rows, deal_hash, title, price, url) ==
    Append(rows, [deal_hash |-> deal_hash, title |-> title,
                  price |-> price, url |-> url,
                  sent_at |-> CURRENT_TIMESTAMP])

\* mutant: the conflict target is the title instead of the hash
mark_deal_sent_ConflictOnTitle(rows, deal_hash, title, price, url) ==
    IF \E k \in DOMAIN rows : rows[k].title = title
    THEN rows
    ELSE Append(rows, [deal_hash |-> deal_hash, title |-> title,
                       price |-> price, url |-> url,
                       sent_at |-> CURRENT_TIMESTAMP])

\* mutant: ON CONFLICT (deal_hash) DO UPDATE, the row takes the new values
mark_deal_sent_Upsert(rows, deal_hash, title, price, url) ==
    IF RowsWith(rows, deal_hash) /= {}
    THEN [k \in DOMAIN rows |->
            IF rows[k].deal_hash = deal_hash
            THEN [deal_hash |-> deal_hash, title |-> title, price |-> price,
                  url |-> url, sent_at |-> CURRENT_TIMESTAMP]
            ELSE rows[k]]
    ELSE Append(rows, [deal_hash |-> deal_hash, title |-> title,
                       price |-> price, url |-> url,
                       sent_at |-> CURRENT_TIMESTAMP])

\* INSERT INTO sent_deals ... ON CONFLICT (deal_hash) DO NOTHING: one
\* statement, executed atomically by the database
mark_deal_sent(rows, deal_hash, title, price, url) ==
    IF RowsWith(rows, deal_hash) /= {}
    THEN rows
    ELSE Append(rows, [deal_hash |-> deal_hash, title |-> title,
                       price |-> price, url |-> url,
                       sent_at |-> CURRENT_TIMESTAMP])

StoredHashes(rows) == { rows[k].deal_hash : k \in DOMAIN rows }

----------------------------------------------------------------------------
(* class Database: table users *)

\* mutant: ON CONFLICT (user_id) DO UPDATE rewrites the whole row
add_user_Overwrite(rows, user_id, username, first_name) ==
    [rows EXCEPT ![user_id] =
        [exists |-> TRUE, username |-> username, first_name |-> first_name,
         notifications_enabled |-> DefaultNotifications,
         categories |-> DefaultCategories, max_price |-> DefaultMaxPrice,
         created_at |-> IF rows[user_id] = NoUser THEN CURRENT_TIMESTAMP
                        ELSE rows[user_id].created_at,
         last_activity |-> CURRENT_TIMESTAMP]]

\* lines 124-132: INSERT ... ON CONFLICT (user_id) DO UPDATE SET
\* last_activity = CURRENT_TIMESTAMP
add_user(rows, user_id, username, first_name) ==
    IF rows[user_id] = NoUser
    THEN [rows EXCEPT ![user_id] =
            [exists |-> TRUE, username |-> username, first_name |-> first_name,
             notifications_enabled |-> DefaultNotifications,
             categories |-> DefaultCategories, max_price |-> DefaultMaxPrice,
             created_at |-> CURRENT_TIMESTAMP,
             last_activity |-> CURRENT_TIMESTAMP]]
    ELSE [rows EXCEPT ![user_id].last_activity = CURRENT_TIMESTAMP]

\* UPDATE users SET <column> = $1 WHERE user_id = $2
UpdateColumn(rows, user_id, column, value) ==
    IF rows[user_id] = NoUser
    THEN rows
    ELSE [rows EXCEPT ![user_id] = [@ EXCEPT ![column] = value]]

\* mutant: 'if notifications:' instead of 'if notifications is not None:'
update_user_preferences_Truthy(rows, user_id, notifications, categories, max_price) ==
    LET r1 == IF notifications = Some(TRUE)
              THEN UpdateColumn(rows, user_id, "notifications_enabled", notifications[1])
              ELSE rows
        r2 == IF categories /= None
              THEN UpdateColumn(r1, user_id, "categories", categories[1])
              ELSE r1
    IN  IF max_price /= None
        THEN UpdateColumn(r2, user_id, "max_price", max_price[1])
        ELSE r2

\* lines 145-163: one UPDATE per argument that is not None
update_user_preferences(rows, user_id, notifications, categories, max_price) ==
    LET r1 == IF notifications /= None
              THEN UpdateColumn(rows, user_id, "notifications_enabled", notifications[1])
              ELSE rows
        r2 == IF categories /= None
              THEN UpdateColumn(r1, user_id, "categories", categories[1])
              ELSE r1
    IN  IF max_price /= None
        THEN UpdateColumn(r2, user_id, "max_price", max_price[1])
        ELSE r2

\* the columns get_all_users selects (line 138)
SelectedColumns(rows, user_id) ==
    [user_id |-> user_id,
     notifications_enabled |-> rows[user_id].notifications_enabled,
     categories |-> rows[user_id].categories,
     max_price |-> rows[user_id].max_price]

\* mutant: the WHERE clause lacks the last_activity condition
get_all_users_NoRetention(rows) ==
    { SelectedColumns(rows, u) :
        u \in { v \in UserIds : /\ rows[v] /= NoUser
                                 /\ rows[v].notifications_enabled = TRUE } }

\* lines 134-143: WHERE notifications_enabled = true AND last_activity >
\* CURRENT_TIMESTAMP - INTERVAL '30 days' (the rows come in no stated order)
get_all_users(rows) ==
    { SelectedColumns(rows, u) :
        u \in { v \in UserIds :
                  /\ rows[v] /= NoUser
                  /\ rows[v].notifications_enabled = TRUE
                  /\ rows[v].last_activity > CURRENT_TIMESTAMP - RetentionDays } }

----------------------------------------------------------------------------
(* NotificationSystem.send_to_channel *)

Ev(kind, i) == [k |-> kind, i |-> i]

\* the events that are a message arriving in the channel for listing i
SendKinds == {"photo", "text"}
\* the events that are an outbound call raising
ErrKinds == {"header_err", "photo_err", "text_err", "mark_err", "getme_err",
             "footer_err"}

\* failures injected so far into invocation c (a store write on a missing
\* pool fails by itself and is not counted)
Faults(c) ==
    Cardinality({ k \in DOMAIN trace[c] :
        /\ trace[c][k].k \in ErrKinds
        /\ (trace[c][k].k = "mark_err" => dbState = "ok") })

MayFail(c) == Faults(c) < MaxFaults

\* mutant: the loop runs over deals, not deals[:5]
Capped_NoCap(deals) == deals

\* deals[:5]
Capped(deals) == SubSeq(deals, 1, Min(Len(deals), ChannelCap))

Active(c) == pc[c] \notin {"idle", "done"}

TypeOK ==
    /\ dbState \in {"absent", "nopool", "ok"}
    /\ \A k \in DOMAIN store : store[k].deal_hash \in { d.hash : d \in Deals }
    /\ pc \in [Slots -> {"idle", "header", "pace_header", "listing", "mark",
                         "pace", "getme", "footer", "done"}]
    /\ \A c \in Slots : batch[c] \in Batches /\ idx[c] \in 0..ChannelCap
    /\ owner \in [Slots -> Orchestrators]
    /\ started \in [Orchestrators -> Nat]

Init ==
    /\ dbState \in {"absent", "nopool", "ok"}
    /\ store = <<>>
    /\ pc = [c \in Slots |-> "idle"]
    /\ batch = [c \in Slots |-> <<>>]
    /\ idx = [c \in Slots |-> 0]
    /\ owner = [c \in Slots |-> 1]
    /\ trace = [c \in Slots |-> <<>>]
    /\ seen = [c \in Slots |-> {}]
    /\ started = [o \in Orchestrators |-> 0]
    /\ now = 0
    /\ users = [u \in UserIds |-> NoUser]
    /\ lastCall = [op |-> "none"]
    /\ scrape = [called |-> FALSE]
    /\ trend = [pc |-> "idle"]
    /\ affiliate_link = [called |-> FALSE]
    /\ hashed = [called |-> FALSE]

\* lines 404-407: the call itself; an empty batch returns at once
Invoke(c, o, deals) ==
    /\ ~Active(c)
    /\ batch' = [batch EXCEPT ![c] = deals]
    /\ owner' = [owner EXCEPT ![c] = o]
    /\ started' = [started EXCEPT ![o] = @ + 1]
    /\ seen' = [seen EXCEPT ![c] = StoredHashes(store)]
    /\ trace' = [trace EXCEPT ![c] = <<>>]
    /\ idx' = [idx EXCEPT ![c] = 0]
    /\ pc' = [pc EXCEPT ![c] = IF CHANNEL_ID = "" \/ deals = <<>>
                                THEN "done" ELSE "header"]
    /\ UNCHANGED <<dbState, store>>

\* mutant: the header send has a try/except of its own, and the listings
\* follow a failed header
OuterExcept_HeaderGoesOn(c, kind) ==
    /\ trace' = [trace EXCEPT ![c] = Append(@, Ev(kind, 0))]
    /\ pc' = [pc EXCEPT ![c] = IF kind = "header_err" THEN "pace_header"
                                ELSE "done"]
    /\ UNCHANGED idx

\* mutant: no outer try, the exception leaves send_to_channel
OuterExcept_Propagates(c, kind) ==
    /\ trace' = [trace EXCEPT ![c] = Append(@, Ev(kind, 0))]
    /\ pc' = [pc EXCEPT ![c] = "raised"]
    /\ UNCHANGED idx

\* the outer except of lines 483-484: log and return
OuterExcept(c, kind) ==
    /\ trace' = [trace EXCEPT ![c] = Append(@, Ev(kind, 0))]
    /\ pc' = [pc EXCEPT ![c] = "done"]
    /\ UNCHANGED idx

\* line 421: await send_message(CHANNEL_ID, header)
SendHeader(c) ==
    /\ pc[c] = "header"
    /\ \/ /\ trace' = [trace EXCEPT ![c] = Append(@, Ev("header", 0))]
          /\ pc' = [pc EXCEPT ![c] = "pace_header"]
          /\ UNCHANGED idx
       \/ /\ MayFail(c)
          /\ OuterExcept(c, "header_err")
    /\ UNCHANGED <<dbState, store, batch, owner, seen, started>>

\* line 422: await asyncio.sleep(2), then the loop of line 424 is entered
PaceHeader(c) ==
    /\ pc[c] = "pace_header"
    /\ trace' = [trace EXCEPT ![c] = Append(@, Ev("pace", 0))]
    /\ idx' = [idx EXCEPT ![c] = 1]
    /\ pc' = [pc EXCEPT ![c] = "listing"]
    /\ UNCHANGED <<dbState, store, batch, owner, seen, started>>

\* the loop of line 424 moves to its next listing, or ends and the footer
\* is built (line 476 awaits get_me)
NextListing(c) ==
    /\ idx' = [idx EXCEPT ![c] = IF @ < Len(Capped(batch[c])) THEN @ + 1 ELSE @]
    /\ pc' = [pc EXCEPT ![c] = IF idx[c] < Len(Capped(batch[c]))
                                THEN "listing" ELSE "getme"]

\* the inner except of lines 469-470: log, and the loop goes on
InnerExcept(c, kind) ==
    /\ trace' = [trace EXCEPT ![c] = Append(@, Ev(kind, idx[c]))]
    /\ NextListing(c)

\* mutant: the store write sits in a finally clause and runs after a failed send
SendFailed_StillMarks(c, kind) ==
    /\ trace' = [trace EXCEPT ![c] = Append(@, Ev(kind, idx[c]))]
    /\ pc' = [pc EXCEPT ![c] = IF dbState /= "absent" THEN "mark" ELSE "pace"]
    /\ UNCHANGED idx

\* mutant: no inner try, a failed send reaches the outer except
SendFailed_Aborts(c, kind) ==
    /\ trace' = [trace EXCEPT ![c] = Append(@, Ev(kind, idx[c]))]
    /\ pc' = [pc EXCEPT ![c] = "done"]
    /\ UNCHANGED idx

\* a channel send of a listing raised: the inner except takes it
SendFailed(c, kind) == InnerExcept(c, kind)

\* what follows a channel send that returned (lines 458-467)
AfterSend(c) ==
    pc' = [pc EXCEPT ![c] = IF dbState /= "absent" THEN "mark" ELSE "pace"]

\* lines 443-456: send_photo when the listing has an http image, else
\* send_message
SendListing(c) ==
    /\ pc[c] = "listing"
    /\ LET deal == batch[c][idx[c]]
           kind == IF HasHttpImage(deal) THEN "photo" ELSE "text"
       IN  \/ /\ trace' = [trace EXCEPT ![c] = Append(@, Ev(kind, idx[c]))]
              /\ AfterSend(c)
              /\ UNCHANGED idx
           \/ /\ MayFail(c)
              /\ SendFailed(c, IF kind = "photo" THEN "photo_err" ELSE "text_err")
    /\ UNCHANGED <<dbState, store, batch, owner, seen, started>>

\* mutant: the store write is outside the inner try and its failure reaches
\* the outer except
MarkFailed_Aborts(c) ==
    /\ trace' = [trace EXCEPT ![c] = Append(@, Ev("mark_err", idx[c]))]
    /\ pc' = [pc EXCEPT ![c] = "done"]
    /\ UNCHANGED idx

\* db.mark_deal_sent raised (a database error, or self.pool is None and
\* line 176 raises AttributeError): the inner except takes it
MarkFailed(c) == InnerExcept(c, "mark_err")

\* lines 459-465: if db: await db.mark_deal_sent(...)
MarkSent(c) ==
    /\ pc[c] = "mark"
    /\ LET deal == batch[c][idx[c]]
       IN  \/ /\ dbState = "ok"
              /\ store' = mark_deal_sent(store, deal.hash, deal.title,
                                         deal.price, deal.url)
              /\ trace' = [trace EXCEPT ![c] = Append(@, Ev("mark", idx[c]))]
              /\ pc' = [pc EXCEPT ![c] = "pace"]
              /\ UNCHANGED idx
           \/ /\ dbState = "nopool" \/ MayFail(c)
              /\ MarkFailed(c)
              /\ UNCHANGED store
    /\ UNCHANGED <<dbState, batch, owner, seen, started>>

\* line 467: await asyncio.sleep(3)
Pace(c) ==
    /\ pc[c] = "pace"
    /\ trace' = [trace EXCEPT ![c] = Append(@, Ev("pace", idx[c]))]
    /\ NextListing(c)
    /\ UNCHANGED <<dbState, store, batch, owner, seen, started>>

\* line 476: await self.app.bot.get_me()
GetMe(c) ==
    /\ pc[c] = "getme"
    /\ \/ /\ pc' = [pc EXCEPT ![c] = "footer"]
          /\ UNCHANGED <<trace, idx>>
       \/ /\ MayFail(c)
          /\ OuterExcept(c, "getme_err")
    /\ UNCHANGED <<dbState, store, batch, owner, seen, started>>

\* line 481: await send_message(CHANNEL_ID, footer)
SendFooter(c) ==
    /\ pc[c] = "footer"
    /\ \/ /\ trace' = [trace EXCEPT ![c] = Append(@, Ev("footer", 0))]
          /\ pc' = [pc EXCEPT ![c] = "done"]
          /\ UNCHANGED idx
       \/ /\ MayFail(c)
          /\ OuterExcept(c, "footer_err")
    /\ UNCHANGED <<dbState, store, batch, owner, seen, started>>

Step(c) ==
    /\ \/ SendHeader(c)
       \/ PaceHeader(c)
       \/ SendListing(c)
       \/ MarkSent(c)
       \/ Pace(c)
       \/ GetMe(c)
       \/ SendFooter(c)
    /\ UNCHANGED <<now, userVars, collectVars, pureVars>>

----------------------------------------------------------------------------
(* Specifications *)

\* One orchestrator whose cycles run one after another, a day apart.
SeqTrigger ==
    /\ \A c \in Slots : ~Active(c)
    /\ started[1] < MaxCycles
    /\ \E deals \in Batches : Invoke(1, 1, deals)
    /\ now' = now + 1
    /\ UNCHANGED <<userVars, collectVars, pureVars>>

Next == SeqTrigger \/ \E c \in Slots : Step(c)

Spec == Init /\ [][Next]_vars

\* Invocations started at any moment, by either orchestrator, each slot once.
ConcTrigger ==
    \E c \in Slots, o \in Orchestrators, deals \in ConcBatches :
        /\ pc[c] = "idle"
        /\ Invoke(c, o, deals)
        /\ UNCHANGED <<now, userVars, collectVars, pureVars>>

NextConc == ConcTrigger \/ \E c \in Slots : Step(c)

SpecConc == Init /\ [][NextConc]_vars

----------------------------------------------------------------------------
(* The users table under the handlers that call it *)

\* the value passed as user.username and user.first_name for user id u
Username(u) == IF u = 1 THEN "ann" ELSE "bob"
FirstName(u) == IF u = 1 THEN "Ann" ELSE "Bob"

\* argument values of update_user_preferences
NotificationArgs == {None, Some(TRUE), Some(FALSE)}
CategoryArgs == {None, Some({}), Some({"tv"})}
MaxPriceArgs == {None, Some(100)}

\* days the clock moves in one step
ClockSteps == {15, 30}

\* line 601 (start) and line 702 (test_db_command): db.add_user(user.id, ...)
AddUser(u) ==
    /\ dbState = "ok"
    /\ users' = add_user(users, u, Username(u), FirstName(u))
    /\ lastCall' = [op |-> "add_user", user_id |-> u]
    /\ UNCHANGED <<deliveryVars, now, collectVars, pureVars>>

\* db.update_user_preferences(user_id, ...), as lines 682 and 687 call it
UpdatePreferences(u, notifications, categories, max_price) ==
    /\ dbState = "ok"
    /\ users' = update_user_preferences(users, u, notifications, categories,
                                        max_price)
    /\ lastCall' = [op |-> "update_user_preferences", user_id |-> u,
                    notifications |-> notifications,
                    categories |-> categories, max_price |-> max_price]
    /\ UNCHANGED <<deliveryVars, now, collectVars, pureVars>>

\* db.get_all_users()
GetAllUsers ==
    /\ dbState = "ok"
    /\ lastCall' = [op |-> "get_all_users", result |-> get_all_users(users)]
    /\ UNCHANGED <<deliveryVars, now, users, collectVars, pureVars>>

\* time passes
ClockAdvance(d) ==
    /\ now + d <= MaxNow
    /\ now' = now + d
    /\ lastCall' = [op |-> "none"]
    /\ UNCHANGED <<deliveryVars, users, collectVars, pureVars>>

NextUsers ==
    \/ \E u \in UserIds : AddUser(u)
    \/ \E u \in UserIds, n \in NotificationArgs, cs \in CategoryArgs,
          mp \in MaxPriceArgs : UpdatePreferences(u, n, cs, mp)
    \/ GetAllUsers
    \/ \E d \in ClockSteps : ClockAdvance(d)

SpecUsers == Init /\ [][NextUsers]_vars

----------------------------------------------------------------------------
(* The inline buttons *)

\* the callback data of the buttons of start (lines 621-623) and of
\* notifiche_command (lines 648-649)
ButtonData ==
    {"enable_notifications", "search_deals", "enable_notif", "disable_notif"}

\* lines 680-687: the value of notifications the handler passes to
\* update_user_preferences for a callback data, None when it makes no call
NotificationsFor(data) ==
    CASE data = "enable_notifications" -> Some(TRUE)
      [] data = "disable_notif" -> Some(FALSE)
      [] OTHER -> None

\* lines 675-691: button_handler_advanced for a press of the button with
\* callback data data by user u. 'if db' skips the call when db is None; with
\* db.pool None the call raises out of the handler. search_deals goes on to
\* offerte_command, which does not touch the users table.
PressButton(u, data) ==
    /\ users' = IF dbState = "ok" /\ NotificationsFor(data) /= None
                THEN update_user_preferences(users, u, NotificationsFor(data),
                                             None, None)
                ELSE users
    /\ lastCall' = [op |-> "button", user_id |-> u, data |-> data,
                    raised |-> (dbState = "nopool"
                                  /\ NotificationsFor(data) /= None)]
    /\ UNCHANGED <<deliveryVars, now, collectVars, pureVars>>

NextButtons ==
    \/ \E u \in UserIds : AddUser(u)
    \/ \E u \in UserIds, cs \in CategoryArgs, mp \in MaxPriceArgs :
          UpdatePreferences(u, None, cs, mp)
    \/ \E u \in UserIds, data \in ButtonData : PressButton(u, data)

SpecButtons == Init /\ [][NextButtons]_vars

----------------------------------------------------------------------------
(* scrape_amazon_deals under the handlers that call it *)

\* a title of one character more than line 376 keeps
LongTitle == [k \in 1..(TitleMax + 1) |-> "a"]

\* fragments that give a listing
FragA == Fragment(Some(<<"T", "v">>), Some("/dp/A"), Some(<<"9">>), "http://img/a")
FragB == Fragment(Some(<<" ", "T", "V", " ">>), Some("/dp/B"), Some(<<" ", "9">>), "")
FragNoTitle == Fragment(None, Some("/dp/C"), Some(<<"2", "9", ",">>), "http://img/c")
\* a title to cut and a price right at the ceiling
FragLongTitle == Fragment(Some(LongTitle), Some("/dp/E"), Some(<<"5", "0", "0">>), "")
\* fragments that give none: no link, no price, a price int() rejects (a
\* thousands separator), a price over the ceiling
FragNoLink == Fragment(Some(<<"E">>), None, Some(<<"5">>), "")
FragNoPrice == Fragment(Some(<<"E">>), Some("/dp/F"), None, "")
FragBadPrice == Fragment(Some(<<"E">>), Some("/dp/G"), Some(<<"1", ".", "2">>), "")
FragOverCeiling == Fragment(Some(<<"E">>), Some("/dp/I"), Some(<<"5", "0", "1">>), "")

Fragments ==
    {FragA, FragB, FragNoTitle, FragLongTitle, FragNoLink, FragNoPrice,
     FragBadPrice, FragOverCeiling}

\* a page of ten fragments, the fourth of which makes int() raise
TenFragments ==
    <<FragA, FragB, FragNoTitle, FragBadPrice, FragLongTitle, FragA, FragB,
      FragNoTitle, FragLongTitle, FragA>>

Pages == SeqsUpTo(Fragments, MaxFrags) \cup {TenFragments}

Statuses == {200, 404, 503}

Responses ==
    {Response(TRUE, 0, <<>>)}
        \cup { Response(FALSE, st, pg) : st \in Statuses, pg \in Pages }

\* the limits of lines 288 and 542 and of the default of line 305, and one
\* that covers the page of ten
Limits == {3, 5, 10}

\* line 542 (cerca_command): deals = await scraper.scrape_amazon_deals(...)
ScrapeCall(response, max_deals) ==
    /\ scrape' = [called |-> TRUE, response |-> response,
                  max_deals |-> max_deals,
                  returned |-> scrape_amazon_deals(response, max_deals)]
    /\ UNCHANGED <<deliveryVars, now, userVars, trend, pureVars>>

\* a behaviour holds one call, on any response and with any limit
NextScrape ==
    /\ ~scrape.called
    /\ \E response \in Responses, max_deals \in Limits :
          ScrapeCall(response, max_deals)

SpecScrape == Init /\ [][NextScrape]_vars

----------------------------------------------------------------------------
(* get_trending_deals under the handler that calls it *)

\* two titles with the same first 50 characters
LongPrefix == [k \in 1..KeyLength |-> "a"]
FragX == Fragment(Some(LongPrefix \o <<"x">>), Some("/dp/X"), Some(<<"5">>), "")
FragY == Fragment(Some(LongPrefix \o <<"y">>), Some("/dp/Y"), Some(<<"7">>), "")
\* a third and a fourth title
FragC == Fragment(Some(<<"E">>), Some("/dp/C"), Some(<<"5">>), "http://img/c")

TrendFragments == {FragX, FragY, FragA, FragB, FragC, FragBadPrice}

\* freely composed pages, one page with both long titles and one longer
\* than the limit of line 288
TrendPages ==
    SeqsUpTo(TrendFragments, MaxTrendFrags)
        \cup {<<FragX, FragA, FragY>>, <<FragBadPrice, FragB, FragC, FragX>>}

TrendResponses ==
    {Response(TRUE, 0, <<>>)}
        \cup { Response(FALSE, st, pg) : st \in {200, 404}, pg \in TrendPages }

\* the max_deals of line 496 (offerte_command) and the default of line 270
TrendMaxDeals == {3, 8}

NextTrend ==
    /\ \/ \E max_deals \in TrendMaxDeals : TrendCall(max_deals)
       \/ \E response \in TrendResponses : TrendSearch(response)
       \/ TrendReturn
    /\ UNCHANGED <<deliveryVars, now, userVars, scrape, pureVars>>

SpecTrend == Init /\ [][NextTrend]_vars

----------------------------------------------------------------------------
(* A whole cycle: collect, then send to the channel *)

CycleFragments == {FragA, FragB, FragC, FragBadPrice}

CyclePages == {<<>>} \cup { <<f>> : f \in CycleFragments }

CycleResponses ==
    {Response(TRUE, 0, <<>>)}
        \cup { Response(FALSE, st, pg) : st \in {200, 404}, pg \in CyclePages }

\* the tick: with no cycle running, the orchestrator calls get_trending_deals
CycleStart ==
    /\ \A c \in Slots : ~Active(c)
    /\ started[1] < MaxCycles
    /\ TrendCall(8)
    /\ UNCHANGED <<deliveryVars, now, userVars, scrape, pureVars>>

CycleSearch ==
    /\ \E response \in CycleResponses : TrendSearch(response)
    /\ UNCHANGED <<deliveryVars, now, userVars, scrape, pureVars>>

CycleReturn ==
    /\ TrendReturn
    /\ UNCHANGED <<deliveryVars, now, userVars, scrape, pureVars>>

\* the orchestrator hands what get_trending_deals returned to
\* send_to_channel
CycleSend ==
    /\ trend.pc = "returned"
    /\ Invoke(1, 1, trend.deals)
    /\ trend' = [pc |-> "idle", failed |-> trend.failed]
    /\ now' = now + 1
    /\ UNCHANGED <<userVars, scrape, pureVars>>

NextCycle ==
    \/ CycleStart
    \/ CycleSearch
    \/ CycleReturn
    \/ CycleSend
    \/ \E c \in Slots : Step(c)

SpecCycle == Init /\ [][NextCycle]_vars

----------------------------------------------------------------------------
(* create_affiliate_link under the handlers that call it *)

\* pieces of URLs: the two path markers, two product ids, half an id, a
\* query string and another path segment
UrlParts ==
    {"/dp/", "/gp/product/", "B09B8V1LZ3", "0123456789", "b09B8", "?ref=1",
     "/x"}

RECURSIVE Joined(_)
Joined(parts) == IF parts = <<>> THEN "" ELSE Head(parts) \o Joined(Tail(parts))

Urls == { Joined(parts) : parts \in SeqsUpTo(UrlParts, MaxParts) }

\* lines 425, 510 and 560: scraper.create_affiliate_link(deal['url'])
LinkCall(amazon_url) ==
    /\ affiliate_link' = [called |-> TRUE, amazon_url |-> amazon_url,
                          returned |-> create_affiliate_link(amazon_url)]
    /\ UNCHANGED <<deliveryVars, now, userVars, collectVars, hashed>>

\* a behaviour holds one call, on any URL
NextLink ==
    /\ ~affiliate_link.called
    /\ \E amazon_url \in Urls : LinkCall(amazon_url)

SpecLink == Init /\ [][NextLink]_vars

----------------------------------------------------------------------------
(* generate_deal_hash on any two listings *)

\* titles and prices over a letter in both cases, the separator of line 267
\* and a digit
HashTitles == SeqsUpTo({"T", "t", "_"}, MaxText)
HashPrices == SeqsUpTo({"9", "_"}, MaxText)

\* line 267: content = f"{title}_{price}".lower()
HashContent(title, price) == Lower(title \o <<"_">> \o price)

\* one call of generate_deal_hash: its arguments, the string it hashed and
\* what it returned
Hashing(title, price) ==
    [title |-> title, price |-> price, content |-> HashContent(title, price),
     hash |-> generate_deal_hash(title, price)]

\* line 300: generate_deal_hash, called for two listings
HashCalls(title1, price1, title2, price2) ==
    /\ hashed' = [called |-> TRUE, first |-> Hashing(title1, price1),
                  second |-> Hashing(title2, price2)]
    /\ UNCHANGED <<deliveryVars, now, userVars, collectVars, affiliate_link>>

\* a behaviour holds one pair of calls, on any two listings
NextHash ==
    /\ ~hashed.called
    /\ \E title1, title2 \in HashTitles, price1, price2 \in HashPrices :
          HashCalls(title1, price1, title2, price2)

SpecHash == Init /\ [][NextHash]_vars

----------------------------------------------------------------------------
(* Properties *)

\* positions in the trace of invocation c holding an event of one of kinds
Events(c, kinds) == { k \in DOMAIN trace[c] : trace[c][k].k \in kinds }

HasEv(c, kind) == Events(c, {kind}) /= {}

HashOf(c, i) == batch[c][i].hash

LastEv(c) == trace[c][Len(trace[c])]

\* the last thing invocation c did was a successful channel send of listing i
JustSent(c, i) ==
    /\ trace[c] /= <<>>
    /\ LastEv(c).k \in SendKinds
    /\ LastEv(c).i = i

DistinctHashes(deals) ==
    \A i, j \in DOMAIN deals : i /= j => deals[i].hash /= deals[j].hash

\* C1: a listing whose fingerprint already had a DeliveryRecord when
\* send_to_channel was invoked is not sent to the channel by that invocation.
C1_DeliveredNotResent ==
    \A c \in Slots : \A k \in Events(c, SendKinds) :
        HashOf(c, trace[c][k].i) \notin seen[c]

\* in the trace of c, every store write (completed or failed) comes right
\* after the successful channel send of the same listing
MarkFollowsSend(c) ==
    \A k \in Events(c, {"mark", "mark_err"}) :
        /\ k > 1
        /\ trace[c][k - 1].k \in SendKinds
        /\ trace[c][k - 1].i = trace[c][k].i

\* in the trace of c, no listing whose send raised has a store write
NoMarkOfFailedSend(c) ==
    \A k \in Events(c, {"photo_err", "text_err"}) :
        \A j \in Events(c, {"mark"}) : trace[c][j].i /= trace[c][k].i

\* C2: the store is written only by an invocation whose last step was the
\* successful channel send of the very listing it records (nothing else, no
\* per-recipient delivery, is waited for), and a listing whose send raised
\* gets no store write in that invocation.
C2_MarkOnlyAfterSuccessfulSend ==
    [][ /\ store' /= store =>
            \E c \in Slots :
                /\ pc[c] = "mark"
                /\ JustSent(c, idx[c])
                /\ Len(store') = Len(store) + 1
                /\ store'[Len(store')].deal_hash = HashOf(c, idx[c])
        /\ \A c \in Slots : MarkFollowsSend(c)' /\ NoMarkOfFailedSend(c)'
      ]_vars

\* C2 witness: an invocation in which one listing's send raised and another
\* listing was sent and recorded.
C2_Witness ==
    \E c \in Slots :
        /\ Events(c, {"photo_err", "text_err"}) /= {}
        /\ HasEv(c, "mark")
        /\ store /= <<>>

\* C3: a completed mark_deal_sent leaves exactly one row with its hash, and
\* when a row with that hash was already there it changes nothing.
C3_MarkIdempotent ==
    [][ \A c \in Slots :
            (pc[c] = "mark" /\ pc'[c] = "pace") =>
                /\ Cardinality(RowsWith(store', HashOf(c, idx[c]))) = 1
                /\ is_deal_sent(store, HashOf(c, idx[c])) => store' = store
      ]_vars

\* C3 witness: mark_deal_sent completed for a hash that was stored before the
\* invocation began.
C3_Witness ==
    \E c \in Slots : \E k \in Events(c, {"mark"}) :
        /\ HashOf(c, trace[c][k].i) \in seen[c]
        /\ Cardinality(RowsWith(store, HashOf(c, trace[c][k].i))) = 1

\* C4: whatever the interleaving of the orchestrators' store writes, the
\* table holds at most one row per fingerprint.
C4_OneRecordPerFingerprint ==
    \A h \in { d.hash : d \in Deals } : Cardinality(RowsWith(store, h)) <= 1

\* C4 witness: two invocations of different orchestrators have both
\* completed mark_deal_sent for the same fingerprint.
C4_Witness ==
    \E c1, c2 \in Slots :
        /\ owner[c1] /= owner[c2]
        /\ \E k1 \in Events(c1, {"mark"}), k2 \in Events(c2, {"mark"}) :
              HashOf(c1, trace[c1][k1].i) = HashOf(c2, trace[c2][k2].i)

\* C5: a finished cycle with n listings of distinct fingerprints (n within
\* the cap), k of them already recorded, and no failing call has sent n-k
\* listings and added n-k rows.
C5_SendsExactlyTheNew ==
    \A c \in Slots :
        (/\ pc[c] = "done"
         /\ dbState = "ok"
         /\ batch[c] /= <<>>
         /\ Len(batch[c]) <= ChannelCap
         /\ DistinctHashes(batch[c])
         /\ Events(c, ErrKinds) = {})
        => LET n == Len(batch[c])
               k == Cardinality({ i \in 1..n : HashOf(c, i) \in seen[c] })
           IN  /\ Cardinality(Events(c, SendKinds)) = n - k
               /\ Len(store) - Cardinality(seen[c]) = n - k

\* C6: while an invocation of an orchestrator is in flight, no second
\* invocation of the same orchestrator is in flight.
C6_SingleFlight ==
    \A c1, c2 \in Slots :
        (c1 /= c2 /\ Active(c1) /\ Active(c2)) => owner[c1] /= owner[c2]

\* the hashes invocation c has sent to the channel
SentHashes(c) == { HashOf(c, trace[c][k].i) : k \in Events(c, SendKinds) }

\* C7: when two orchestrators have each sent a listing with fingerprint F to
\* the channel, the table still holds at most one row for F.
C7_SentTwiceRecordedOnce ==
    \A c1, c2 \in Slots :
        (c1 /= c2 /\ owner[c1] /= owner[c2]) =>
            \A h \in SentHashes(c1) \cap SentHashes(c2) :
                Cardinality(RowsWith(store, h)) <= 1

\* C7 witness: two orchestrators have run concurrently to the end, both have
\* sent fingerprint F to the channel, and exactly one row for F exists.
C7_Witness ==
    \E c1, c2 \in Slots :
        /\ owner[c1] /= owner[c2]
        /\ pc[c1] = "done" /\ pc[c2] = "done"
        /\ \E h \in SentHashes(c1) \cap SentHashes(c2) :
              Cardinality(RowsWith(store, h)) = 1

\* the listings invocation c has tried to send
Attempted(c) ==
    { trace[c][k].i : k \in Events(c, SendKinds \cup {"photo_err", "text_err"}) }

\* C9: an invocation that got past its header returns only after it has
\* tried every listing among the first five and has gone on to the footer,
\* whichever listing sends raised.
C9_FailedListingDoesNotStopBatch ==
    \A c \in Slots :
        (pc[c] = "done" /\ HasEv(c, "header")) =>
            /\ Attempted(c) = 1..Len(Capped(batch[c]))
            /\ HasEv(c, "footer") \/ HasEv(c, "getme_err") \/ HasEv(c, "footer_err")

\* C9 witness: a finished invocation in which a listing's send raised, a
\* later listing was sent and the footer was sent.
C9_Witness ==
    \E c \in Slots :
        /\ pc[c] = "done"
        /\ HasEv(c, "footer")
        /\ \E k \in Events(c, {"photo_err", "text_err"}) :
              \E j \in Events(c, SendKinds) : j > k /\ trace[c][j].i > trace[c][k].i

\* C10: a send_photo that raised is followed by a text-only attempt for the
\* same listing before the invocation moves on.
C10_TextRetryAfterPhotoFailure ==
    \A c \in Slots : \A k \in Events(c, {"photo_err"}) :
        \/ /\ k = Len(trace[c])
           /\ pc[c] = "listing"
           /\ idx[c] = trace[c][k].i
        \/ /\ k < Len(trace[c])
           /\ trace[c][k + 1].k \in {"text", "text_err"}
           /\ trace[c][k + 1].i = trace[c][k].i

\* the events that are a message arriving in the channel
MessageKinds == SendKinds \cup {"header", "footer"}

\* C11: between any two consecutive channel messages of one invocation a
\* pacing sleep was executed.
C11_PaceBetweenMessages ==
    \A c \in Slots : \A k1, k2 \in Events(c, MessageKinds) :
        (k1 < k2 /\ \A k \in (k1 + 1)..(k2 - 1) : trace[c][k].k \notin MessageKinds)
        => \E k \in (k1 + 1)..(k2 - 1) : trace[c][k].k = "pace"

\* C13: with the store unavailable (db is None, or db.pool is None), an
\* invocation whose channel calls all succeed returns after sending every
\* listing among the first five and the footer, and the table stays empty.
C13_DegradedModeStillSends ==
    /\ dbState /= "ok" => store = <<>>
    /\ \A c \in Slots :
        (/\ pc[c] = "done"
         /\ dbState /= "ok"
         /\ batch[c] /= <<>>
         /\ Events(c, ErrKinds \ {"mark_err"}) = {})
        => /\ { trace[c][k].i : k \in Events(c, SendKinds) }
                = 1..Len(Capped(batch[c]))
           /\ Cardinality(Events(c, SendKinds)) = Len(Capped(batch[c]))
           /\ HasEv(c, "footer")

\* C13 witness: a finished invocation on a store whose pool is missing: every
\* store write raised, five listings of a longer batch and the footer were sent.
C13_Witness ==
    \E c \in Slots :
        /\ pc[c] = "done"
        /\ dbState = "nopool"
        /\ Len(batch[c]) > ChannelCap
        /\ Cardinality(Events(c, {"mark_err"})) = ChannelCap
        /\ Cardinality(Events(c, SendKinds)) = ChannelCap
        /\ HasEv(c, "footer")

\* C13 second case: db is None and the store write is not attempted.
C13_WitnessAbsent ==
    \E c \in Slots :
        /\ pc[c] = "done"
        /\ dbState = "absent"
        /\ Cardinality(Events(c, SendKinds)) = ChannelCap
        /\ HasEv(c, "footer")

\* C20: a row of sent_deals, once written, stays in the table with every
\* column as first written, whatever the program does afterwards.
C20_RecordsNeverChange ==
    [][ \A k \in DOMAIN store : k \in DOMAIN store' /\ store'[k] = store[k] ]_vars

\* C20 witness: mark_deal_sent completed in a later cycle for a stored
\* fingerprint with another title and url, and the row is as first written.
C20_Witness ==
    \E c \in Slots : \E k \in Events(c, {"mark"}) : \E r \in DOMAIN store :
        LET deal == batch[c][trace[c][k].i]
        IN  /\ store[r].deal_hash = deal.hash
            /\ store[r].title /= deal.title
            /\ store[r].url /= deal.url
            /\ store[r].sent_at < now


\* C17: add_user of a user id without a row creates the row with
\* notifications enabled, no categories, max_price 500 and last_activity now;
\* add_user of a user id that has a row changes that row's last_activity only,
\* so the stored preferences stay (a disabled recipient stays disabled); no
\* other row changes.
C17_AddUserKeepsPreferences ==
    [][ lastCall'.op = "add_user" =>
          LET u == lastCall'.user_id IN
          /\ users[u] = NoUser =>
                /\ users'[u] /= NoUser
                /\ users'[u].notifications_enabled = TRUE
                /\ users'[u].categories = {}
                /\ users'[u].max_price = 500
                /\ users'[u].last_activity = now
          /\ users[u] /= NoUser =>
                users'[u] = [users[u] EXCEPT !.last_activity = now]
          /\ \A v \in UserIds \ {u} : users'[v] = users[v] ]_vars

\* add_user has just been called again, later, for a recipient who had
\* disabled notifications and changed the other preferences
C17_Witness ==
    /\ lastCall.op = "add_user"
    /\ LET r == users[lastCall.user_id] IN
        /\ r.notifications_enabled = FALSE
        /\ r.categories = {"tv"}
        /\ r.max_price = 100
        /\ r.last_activity = now
        /\ r.created_at < now

\* a first add_user has just created a row
C17_WitnessNew ==
    /\ lastCall.op = "add_user"
    /\ users[lastCall.user_id].created_at = now
    /\ now > 0

\* C18: update_user_preferences changes exactly the fields whose argument is
\* not None, to the value given, on the row of the named recipient; the other
\* fields of that row, every other row and the set of rows stay as they were.
C18_UpdateOnlyGivenFields ==
    [][ lastCall'.op = "update_user_preferences" =>
          LET call == lastCall'
              u == call.user_id
          IN
          /\ \A v \in UserIds \ {u} : users'[v] = users[v]
          /\ users[u] = NoUser => users'[u] = NoUser
          /\ users[u] /= NoUser =>
                /\ users'[u].notifications_enabled =
                      IF call.notifications = None
                      THEN users[u].notifications_enabled
                      ELSE call.notifications[1]
                /\ users'[u].categories =
                      IF call.categories = None THEN users[u].categories
                      ELSE call.categories[1]
                /\ users'[u].max_price =
                      IF call.max_price = None THEN users[u].max_price
                      ELSE call.max_price[1]
                /\ users'[u].username = users[u].username
                /\ users'[u].first_name = users[u].first_name
                /\ users'[u].created_at = users[u].created_at
                /\ users'[u].last_activity = users[u].last_activity ]_vars

\* notifications have just been switched off by a call that names no other
\* field, for a recipient whose other preferences are not the defaults, while
\* another recipient exists
C18_Witness ==
    /\ lastCall.op = "update_user_preferences"
    /\ lastCall.notifications = Some(FALSE)
    /\ lastCall.categories = None
    /\ lastCall.max_price = None
    /\ LET r == users[lastCall.user_id] IN
        /\ r /= NoUser
        /\ r.notifications_enabled = FALSE
        /\ r.categories = {"tv"}
        /\ r.max_price = 100
    /\ \E v \in UserIds \ {lastCall.user_id} : users[v] /= NoUser

\* the recipients a call of get_all_users returns
ListedIds == { r.user_id : r \in lastCall.result }

\* C19: get_all_users returns exactly the recipients with notifications
\* enabled whose last_activity is less than 30 days old (a last_activity of
\* exactly 30 days ago is outside), each with its stored preferences.
C19_ActiveRecipients ==
    [][ lastCall'.op = "get_all_users" =>
          /\ { r.user_id : r \in lastCall'.result } =
                { u \in UserIds : /\ users[u] /= NoUser
                                  /\ users[u].notifications_enabled
                                  /\ now - users[u].last_activity < 30 }
          /\ \A r \in lastCall'.result :
                /\ r.notifications_enabled = users[r.user_id].notifications_enabled
                /\ r.categories = users[r.user_id].categories
                /\ r.max_price = users[r.user_id].max_price ]_vars

\* a call has just returned a recipient created more than 30 days ago, who is
\* active again, and left out a recipient who exists
C19_Witness ==
    /\ lastCall.op = "get_all_users"
    /\ \E u \in ListedIds : now - users[u].created_at > 30
    /\ \E v \in UserIds \ ListedIds : users[v] /= NoUser

\* a call has just left out a recipient with notifications enabled who was
\* last active more than 30 days ago, and one who disabled notifications
C19_WitnessAbsent ==
    /\ lastCall.op = "get_all_users"
    /\ \E u \in UserIds \ ListedIds :
          /\ users[u] /= NoUser
          /\ users[u].notifications_enabled
          /\ now - users[u].last_activity > 30
    /\ \E v \in UserIds \ ListedIds :
          /\ users[v] /= NoUser
          /\ ~users[v].notifications_enabled
          /\ now - users[v].last_activity < 30


\* link and price present, price parsable and within the ceiling
WellFormed(f) ==
    /\ f.link /= None
    /\ f.price /= None
    /\ IsInt(RemoveCommas(Strip(f.price[1])))
    /\ IntOf(RemoveCommas(Strip(f.price[1]))) <= 500

\* listing l is the listing of fragment f
ListingOf(l, f) ==
    /\ l.url = f.link[1]
    /\ l.price = <<"EUR">> \o Strip(f.price[1])
    /\ l.image = f.image
    /\ \/ f.title = None /\ l.title = PlaceholderTitle
       \/ /\ f.title /= None
          /\ LET t == Strip(f.title[1]) IN
                \/ Len(t) <= 100 /\ l.title = t
                \/ Len(t) > 100 /\ l.title = SubSeq(t, 1, 100) \o <<".", ".", ".">>

\* the last call got a page (status 200) no longer than its limit
ScrapedWholePage ==
    /\ scrape.called
    /\ ~scrape.response.raises
    /\ scrape.response.status = 200
    /\ scrape.max_deals >= Len(scrape.response.products)

\* C14: for a page of fragments no longer than the limit,
\* scrape_amazon_deals returns exactly one listing for each well-formed
\* fragment (link and price present, price parsable and at most 500), in
\* page order, and nothing for any other fragment, whatever stands before or
\* after it.
C14_OneListingPerWellFormedFragment ==
    ScrapedWholePage =>
        LET wellFormed == SelectSeq(scrape.response.products, WellFormed)
            deals == scrape.returned.deals
        IN  /\ ~scrape.returned.raised
            /\ Len(deals) = Len(wellFormed)
            /\ \A i \in DOMAIN deals : ListingOf(deals[i], wellFormed[i])

\* a page of ten fragments, one of which makes the parser raise between
\* well-formed ones, has given nine listings
C14_Witness ==
    /\ ScrapedWholePage
    /\ Len(scrape.response.products) = 10
    /\ \E i \in 2..9 :
        /\ ~NoLink(scrape.response.products[i])
        /\ ~NoPrice(scrape.response.products[i])
        /\ PriceRaises(scrape.response.products[i])
        /\ \A j \in (1..10) \ {i} : WellFormed(scrape.response.products[j])
    /\ Len(scrape.returned.deals) = 9

\* C15: when the response status is not 200, scrape_amazon_deals returns the
\* empty sequence, raises nothing and parses no fragment of the response.
C15_NonSuccessStatusGivesNothing ==
    (scrape.called /\ ~scrape.response.raises /\ scrape.response.status /= 200)
        => /\ scrape.returned.deals = <<>>
           /\ ~scrape.returned.raised
           /\ scrape.returned.parsed = 0

\* a response with a status other than 200 whose body holds a well-formed
\* fragment has given nothing
C15_Witness ==
    /\ scrape.called
    /\ ~scrape.response.raises
    /\ scrape.response.status = 404
    /\ \E i \in DOMAIN scrape.response.products :
          WellFormed(scrape.response.products[i])
    /\ scrape.returned.deals = <<>>


\* listing all_deals[k] is the first of all_deals with its title-prefix key
FirstWithKey(all_deals, k) ==
    \A j \in 1..(k - 1) :
        SubSeq(all_deals[j].title, 1, Min(Len(all_deals[j].title), 50))
            /= SubSeq(all_deals[k].title, 1, Min(Len(all_deals[k].title), 50))

SameListing(kept, deal) ==
    /\ kept.title = deal.title
    /\ kept.price = deal.price
    /\ kept.url = deal.url
    /\ kept.image = deal.image

\* C16: the sequence get_trending_deals returns holds no two listings whose
\* titles have the same first 50 characters; each listing in it is the first
\* with its key in the merged per-query results, in their order; it holds at
\* most max_deals listings, and when it holds fewer every key is in it.
C16_FirstOccurrencePerKey ==
    trend.pc = "returned" =>
        LET deals == trend.deals
            all_deals == trend.all_deals
            first == SelectSeq([k \in DOMAIN all_deals |-> k],
                               LAMBDA k : FirstWithKey(all_deals, k))
        IN  /\ \A i, j \in DOMAIN deals :
                  i /= j =>
                      SubSeq(deals[i].title, 1, Min(Len(deals[i].title), 50))
                        /= SubSeq(deals[j].title, 1, Min(Len(deals[j].title), 50))
            /\ Len(deals) <= trend.max_deals
            /\ Len(deals) = Min(Len(first), trend.max_deals)
            /\ \A i \in DOMAIN deals : SameListing(deals[i], all_deals[first[i]])

\* a call has returned after the searches gave two different listings with
\* the same key, of which the first was kept, and more keys than max_deals
C16_Witness ==
    /\ trend.pc = "returned"
    /\ \E i, j \in DOMAIN trend.all_deals :
        /\ i < j
        /\ FirstWithKey(trend.all_deals, i)
        /\ trend.all_deals[i].title /= trend.all_deals[j].title
        /\ TitleKey(trend.all_deals[i].title) = TitleKey(trend.all_deals[j].title)
        /\ \E k \in DOMAIN trend.deals :
              SameListing(trend.deals[k], trend.all_deals[i])
    /\ Cardinality(KeysOf(trend.all_deals)) > trend.max_deals
    /\ Len(trend.deals) = trend.max_deals


\* the last cycle met a failing fetch and its send_to_channel has ended after
\* a failing channel call or store write
CycleEndedAfterFailures ==
    /\ trend.pc = "idle"
    /\ pc[1] = "done"
    /\ trend.failed > 0
    /\ Events(1, ErrKinds) /= {}

\* C12: whatever outbound call fails in a cycle (a fetch of
\* get_trending_deals, a channel send or a store write of send_to_channel),
\* neither function raises to its caller; once the cycle has ended the
\* orchestrator is idle and the next tick can start a fresh cycle.
C12_FailuresStayInside ==
    /\ trend.pc /= "raised"
    /\ \A c \in Slots : pc[c] /= "raised"
    /\ (trend.pc = "searching" /\ trend.terms = 3) => ENABLED CycleReturn
    /\ (CycleEndedAfterFailures /\ started[1] < MaxCycles) => ENABLED CycleStart

\* a cycle has ended in which a fetch failed and the footer send failed, and
\* another cycle may follow
C12_Witness ==
    /\ CycleEndedAfterFailures
    /\ HasEv(1, "footer_err")
    /\ started[1] < MaxCycles

\* a second cycle is collecting after a first one whose header send failed
C12_WitnessFresh ==
    /\ started[1] = 1
    /\ trend.pc = "searching"
    /\ HasEv(1, "header_err")


\* C21: an invocation of send_to_channel sends at most five listing messages;
\* each is a listing among the first five of the batch, and they go out in
\* batch order, no listing twice.
C21_AtMostFiveListings ==
    \A c \in Slots :
        /\ Cardinality(Events(c, SendKinds)) <= 5
        /\ \A k \in Events(c, SendKinds) :
              trace[c][k].i \in 1..Min(Len(batch[c]), 5)
        /\ \A k1, k2 \in Events(c, SendKinds) :
              k1 < k2 => trace[c][k1].i < trace[c][k2].i

\* an invocation on a batch of more than five listings has ended after five
\* listing messages, the first five of the batch, and the footer
C21_Witness ==
    \E c \in Slots :
        /\ pc[c] = "done"
        /\ Len(batch[c]) > 5
        /\ { trace[c][k].i : k \in Events(c, SendKinds) } = 1..5
        /\ HasEv(c, "footer")


\* the canonical product URL of an id, with the tag and the fixed parameters
CanonicalLink(asin) ==
    "https://www.amazon.it/dp/" \o asin \o "/?tag=botaffari-21&linkCode=ogi&th=1&psc=1"

\* url holds lead followed by a 10-character [A-Z0-9] id
HasAsin(url, lead) == \E p \in 1..Len(url) : MatchesAt(url, lead, p)

\* the ids that follow lead in url
AsinsAfter(url, lead) ==
    { SubSeq(url, p + Len(lead), p + Len(lead) + 9) :
        p \in { q \in 1..Len(url) : MatchesAt(url, lead, q) } }

\* C22: create_affiliate_link raises nothing and returns, for a URL holding
\* /dp/<id>, or else /gp/product/<id>, with a 10-character [A-Z0-9] id, the
\* canonical dp URL of such an id with the tag and the fixed parameters and
\* nothing of the input's query; for any other URL, the input followed by
\* '&tag=<tag>' when it holds a '?' and by '?tag=<tag>' when it holds none.
C22_AffiliateLinkShape ==
    affiliate_link.called =>
        LET url == affiliate_link.amazon_url
            returned == affiliate_link.returned
        IN  /\ ~returned.raised
            /\ HasAsin(url, "/dp/") =>
                  \E asin \in AsinsAfter(url, "/dp/") :
                      returned.url = CanonicalLink(asin)
            /\ (~HasAsin(url, "/dp/") /\ HasAsin(url, "/gp/product/")) =>
                  \E asin \in AsinsAfter(url, "/gp/product/") :
                      returned.url = CanonicalLink(asin)
            /\ (~HasAsin(url, "/dp/") /\ ~HasAsin(url, "/gp/product/")) =>
                  returned.url =
                      IF HasQuestionMark(url) THEN url \o "&tag=botaffari-21"
                      ELSE url \o "?tag=botaffari-21"

\* a URL with a /gp/product/ id, no /dp/ id and a query string has given the
\* canonical link
C22_Witness ==
    /\ affiliate_link.called
    /\ ~HasAsin(affiliate_link.amazon_url, "/dp/")
    /\ HasAsin(affiliate_link.amazon_url, "/gp/product/")
    /\ HasQuestionMark(affiliate_link.amazon_url)
    /\ affiliate_link.returned.url = CanonicalLink("B09B8V1LZ3")

\* a URL without a product id and with a query string has got the tag after '&'
C22_WitnessOther ==
    /\ affiliate_link.called
    /\ affiliate_link.amazon_url = "/dp/b09B8?ref=1"
    /\ affiliate_link.returned.url = "/dp/b09B8?ref=1&tag=botaffari-21"


\* C23: when two (title, price) pairs differ in the title or in the price,
\* the strings generate_deal_hash hashes for them differ, and so do the
\* fingerprints.
C23_ChangedListingNewFingerprint ==
    hashed.called =>
        ((hashed.first.title /= hashed.second.title
            \/ hashed.first.price /= hashed.second.price)
         => /\ hashed.first.content /= hashed.second.content
            /\ hashed.first.hash /= hashed.second.hash)


\* the fingerprints of the listing messages invocation c has sent, one for
\* each message
SentFingerprints(c) == [k \in Events(c, SendKinds) |-> HashOf(c, trace[c][k].i)]

\* C24: the listings one get_trending_deals call returns carry pairwise
\* distinct hashes, and the cycle that hands them to send_to_channel sends no
\* fingerprint to the channel twice.
C24_DistinctHashesInBatch ==
    /\ trend.pc = "returned" => DistinctHashes(trend.deals)
    /\ \A k1, k2 \in DOMAIN SentFingerprints(1) :
          k1 /= k2 => SentFingerprints(1)[k1] /= SentFingerprints(1)[k2]


\* listing i of invocation c was attempted (its send returned or raised)
\* before position k of the trace
AttemptedBefore(c, i, k) ==
    \E j \in 1..(k - 1) :
        /\ trace[c][j].k \in SendKinds \cup {"photo_err", "text_err"}
        /\ trace[c][j].i = i

\* no listing message without the header sent before it
HeaderBeforeListings(c) ==
    \A k \in Events(c, SendKinds) : \E h \in 1..(k - 1) : trace[c][h].k = "header"

\* after a failed header: no listing message, no store write, and the
\* invocation has returned
FailedHeaderEndsInvocation(c) ==
    HasEv(c, "header_err") =>
        /\ Events(c, SendKinds) = {}
        /\ Events(c, {"mark", "mark_err"}) = {}
        /\ pc[c] = "done"

\* C25 as stated: no listing message is sent unless the header was sent
\* before it; the footer is sent only after every listing of the batch has
\* been attempted; a failed header send ends the invocation with no listing
\* sent, no DeliveryRecord written and nothing raised.
C25_HeaderFirstFooterLast ==
    \A c \in Slots :
        /\ HeaderBeforeListings(c)
        /\ \A k \in Events(c, {"footer"}) :
              \A i \in 1..Len(batch[c]) : AttemptedBefore(c, i, k)
        /\ FailedHeaderEndsInvocation(c)

\* C25 amended: the footer is sent only after every listing among the first
\* five of the batch has been attempted; the rest as stated.
C25_HeaderFirstFooterAfterFirstFive ==
    \A c \in Slots :
        /\ HeaderBeforeListings(c)
        /\ \A k \in Events(c, {"footer"}) :
              \A i \in 1..Min(Len(batch[c]), 5) : AttemptedBefore(c, i, k)
        /\ FailedHeaderEndsInvocation(c)

\* an invocation on more than one listing has sent header, listings (one
\* send raised) and footer
C25_Witness ==
    \E c \in Slots :
        /\ pc[c] = "done"
        /\ Len(batch[c]) > 1
        /\ HasEv(c, "header")
        /\ Events(c, {"photo_err", "text_err"}) /= {}
        /\ Events(c, SendKinds) /= {}
        /\ HasEv(c, "footer")

\* an invocation whose header send raised has returned
C25_WitnessFailedHeader ==
    \E c \in Slots :
        /\ pc[c] = "done"
        /\ HasEv(c, "header_err")
        /\ batch[c] /= <<>>


\* C26: when an existing recipient presses a button that switches
\* notifications, with the store available, the recipient's
\* notifications_enabled is true after an enable button
\* ('enable_notifications', 'enable_notif') and false after the disable
\* button ('disable_notif'), and no other field of the row has changed.
C26_NotificationButtons ==
    [][ (/\ lastCall'.op = "button"
         /\ dbState = "ok"
         /\ users[lastCall'.user_id] /= NoUser
         /\ lastCall'.data \in {"enable_notifications", "enable_notif",
                                "disable_notif"})
        => LET u == lastCall'.user_id IN
           /\ users'[u].notifications_enabled = (lastCall'.data /= "disable_notif")
           /\ users'[u] = [users[u] EXCEPT
                              !.notifications_enabled = users'[u].notifications_enabled]
      ]_vars

====
